---- MODULE Spec2Model ----
(***************************************************************************)
(* Model of the oty workflow execution engine (src/oty.py):                *)
(* WorkflowExecutionEngine.execute_workflow, its pre-flight validation,    *)
(* the state store (save_state / load_state / clear_state /                *)
(* list_saved_states) and the click commands that call them.               *)
(*                                                                         *)
(* A Python str is a sequence of one-character strings.  A dict is a       *)
(* sequence of <<key, value>> pairs in insertion order.                    *)
(***************************************************************************)
EXTENDS Integers, Sequences, FiniteSets, TLC

\* Largest number of steps of a workflow document.
MaxSteps == 2

----------------------------------------------------------------------------
\* Strings

\* The characters matched by \w in the commands of the model.
WordChars == {"e", "h", "u", "v", "X", "T", "A", "R", "G", "E", "B"}
\* The characters matched by \s.
SpaceChars == {" "}

\* The key execute_workflow injects: variables['TARGET'].
TARGET == <<"T", "A", "R", "G", "E", "T">>

\* str(value) for the scalar values a YAML document can hold: a string is
\* itself, a boolean prints as True / False.
StrOf(value) ==
    IF value.type = "bool"
    THEN IF value.val THEN <<"T", "r", "u", "e">> ELSE <<"F", "a", "l", "s", "e">>
    ELSE value.val

StrValue(s) == [type |-> "str", val |-> s]
BoolValue(b) == [type |-> "bool", val |-> b]

\* f'{{{{{var}}}}}' : the text {{var}}.
Placeholder(var) == <<"{", "{">> \o var \o <<"}", "}">>

\* s.startswith(p)
StartsWith(s, p) == Len(s) >= Len(p) /\ SubSeq(s, 1, Len(p)) = p

\* str.replace(old, new) for non-empty old: every non-overlapping occurrence,
\* scanning from the left.
RECURSIVE Replace(_, _, _)
Replace(s, old, new) ==
    IF Len(s) < Len(old) THEN s
    ELSE IF StartsWith(s, old)
         THEN new \o Replace(SubSeq(s, Len(old) + 1, Len(s)), old, new)
         ELSE <<Head(s)>> \o Replace(Tail(s), old, new)

\* sub in s
RECURSIVE Contains(_, _)
Contains(s, sub) ==
    IF Len(s) < Len(sub) THEN FALSE
    ELSE StartsWith(s, sub) \/ Contains(Tail(s), sub)

\* Length of the longest run of \w characters at the start of s.
RECURSIVE WordRun(_)
WordRun(s) ==
    IF s = <<>> \/ Head(s) \notin WordChars THEN 0 ELSE 1 + WordRun(Tail(s))

\* Length n of the name if s starts with a match of {{(\w+)}}, else 0.
PlaceholderAt(s) ==
    IF Len(s) >= 5 /\ s[1] = "{" /\ s[2] = "{"
    THEN LET n == WordRun(SubSeq(s, 3, Len(s)))
         IN  IF n >= 1 /\ Len(s) >= n + 4 /\ s[n + 3] = "}" /\ s[n + 4] = "}"
             THEN n ELSE 0
    ELSE 0

\* re.findall(r'{{(\w+)}}', command): the names, left to right.
RECURSIVE FindVars(_)
FindVars(s) ==
    IF s = <<>> THEN <<>>
    ELSE LET n == PlaceholderAt(s)
         IN  IF n > 0
             THEN <<SubSeq(s, 3, n + 2)>> \o FindVars(SubSeq(s, n + 5, Len(s)))
             ELSE FindVars(Tail(s))

\* Length of the longest run of non-\s characters at the start of s.
RECURSIVE TokenRun(_)
TokenRun(s) ==
    IF s = <<>> \/ Head(s) \in SpaceChars THEN 0 ELSE 1 + TokenRun(Tail(s))

\* str.split(): the whitespace-delimited tokens.
RECURSIVE Split(_)
Split(s) ==
    IF s = <<>> THEN <<>>
    ELSE IF Head(s) \in SpaceChars THEN Split(Tail(s))
    ELSE LET n == TokenRun(s)
         IN  <<SubSeq(s, 1, n)>> \o Split(SubSeq(s, n + 1, Len(s)))

\* re.findall(r'(?:^|\s)(/[^\s]+)', test_command): the tokens that start
\* with / and have at least one more character.
AbsPaths(s) ==
    SelectSeq(Split(s), LAMBDA t : Len(t) >= 2 /\ Head(t) = "/")

----------------------------------------------------------------------------
\* Dicts as sequences of <<key, value>> pairs

Keys(d) == {d[i][1] : i \in 1..Len(d)}

\* d[k] for a key that is present.
Lookup(d, k) == d[CHOOSE i \in 1..Len(d) : d[i][1] = k][2]

\* d[k] = v : an existing key keeps its position, a new key goes last.
DictSet(d, k, v) ==
    IF k \in Keys(d)
    THEN [i \in 1..Len(d) |-> IF d[i][1] = k THEN <<k, v>> ELSE d[i]]
    ELSE Append(d, <<k, v>>)

\* for var, value in variables.items():
\*     command = command.replace(f'{{{{{var}}}}}', str(value))
RECURSIVE SubstituteFrom(_, _, _)
SubstituteFrom(command, variables, i) ==
    IF i > Len(variables) THEN command
    ELSE SubstituteFrom(Replace(command, Placeholder(variables[i][1]),
                                StrOf(variables[i][2])),
                        variables, i + 1)

Substitute(command, variables) == SubstituteFrom(command, variables, 1)

\* A marker check that finds nothing.
HasMarkerNever(command) == FALSE

\* any(var in command for var in ['{{', '}}'])
HasMarker(command) ==
    Contains(command, <<"{", "{">>) \/ Contains(command, <<"}", "}">>)

----------------------------------------------------------------------------
\* Workflow documents

\* dict.get(key, default)
Get(d, key, default) == IF key \in DOMAIN d THEN d[key] ELSE default

\* "e {{TARGET}}"
CmdTarget == <<"e", " ">> \o Placeholder(TARGET)
\* "e {{X}}" : X is declared by no document, so pre-flight prompts for it.
CmdX == <<"e", " ">> \o Placeholder(<<"X">>)

\* The number of seconds a step of the model declares as its timeout.
StepTimeout == 1

\* The steps a document of the model is built from.  continue_on_error is
\* optional in WORKFLOW_SCHEMA.
StepSpecs ==
    { [name |-> <<"s">>, command |-> CmdTarget],
      [name |-> <<"s">>, command |-> CmdTarget, continue_on_error |-> TRUE,
       timeout |-> StepTimeout],
      [name |-> <<"s">>, command |-> CmdX, continue_on_error |-> FALSE] }

\* Documents that pass validate_workflow_template, with 1..MaxSteps steps.
Templates ==
    { [name |-> <<"w">>, steps |-> st] :
        st \in UNION {[1..n -> StepSpecs] : n \in 1..MaxSteps} }

\* The template files of the model: the same document at two paths.
TemplatePaths == {"p1", "p2"}
\* The TARGET arguments of the model.
Targets == {<<"h">>}
\* What the operator types at click.prompt.
PromptValues == {<<"u">>, <<"v">>}
\* Executables the steps of the model name.
Executables == {<<"e">>}
\* Absolute paths that exist (os.path.exists).
ExistingPaths == {}

\* Popen.returncode of a child ended by SIGTERM (process.terminate()).
Terminated == -15
\* Popen.returncode of a child ended by SIGKILL (process.kill()).
Killed == 0 - 9
\* Exit codes of a command that runs to its own end.
OwnExitCodes == {0, 1}
\* Exit code of the shell when the executable is not found.
NotFoundCodes == {127}

----------------------------------------------------------------------------
\* State store keys

\* _generate_state_id: md5(f"{workflow_name}_{target}")[:12].  The digest is
\* modelled as injective on the joined string, so the id is that string.
GenerateStateId(workflow_name, target) == workflow_name \o <<"_">> \o target

\* _get_state_file_path: one file per state id under states_dir.
GetStateFilePath(workflow_name, target) == GenerateStateId(workflow_name, target)

----------------------------------------------------------------------------
\* Pre-flight validation

VARIABLES
    template,         \* the document stored at every template path
    installed,        \* the executables shutil.which finds
    store,            \* states_dir: state id -> contents of its state file
    writes,           \* history: state files written or deleted by the command
    pc,               \* position of the running command
    template_path,    \* arguments of execute_workflow
    target,
    dry_run,
    resume,
    bound,            \* the local names of execute_workflow that are bound
    variables,
    completed_steps,
    idx,              \* loop index of the step loop
    undefined_vars,   \* variables still to be prompted for
    need_confirm,     \* invalid_paths or missing_commands of the first validation
    returncode,       \* process.returncode of the current step's child
    started,          \* history: indices for which Popen was called, in order
    status,           \* history: classification of each step in this run
    resolved,         \* history: the command passed to Popen for each step
    eof_steps,        \* history: steps during which end-of-input was read
    term_steps,       \* history: steps whose child died of process.terminate()
    kill_steps,       \* history: steps whose child was ended by process.kill()
    loaded,           \* history: the state accepted by the resume check
    store_at_start,   \* history: store when the command was invoked
    saved,            \* history: arguments of the save_state calls of this run
    interrupted,      \* history: pc at which KeyboardInterrupt arrived
    fatal_step,       \* history: step whose failure raised (0 if none)
    error_logged,     \* history: the handler of "except Exception" ran
    cmd,              \* the command line command last invoked
    outcome,          \* how the last command ended
    confirmed,        \* history: the operator answered yes at click.confirm
    alive,            \* history: steps of this run whose child has not exited
    elapsed,          \* history: the declared timeout of step idx has run out
    subst_command,    \* a step command given to the substitution on its own
    subst_variables,  \* the variables given with it
    subst_result,     \* the resolved command, once computed
    listed,           \* what the last list_saved_states call returned
    last_op,          \* the last save_state / load_state / clear_state call
    program,          \* one child on its own: the writes it still has to do
    exit_code,        \* its exit code, once it has exited
    stdout_pipe,      \* lines in the pipe of process.stdout
    stderr_pipe,      \* blocks in the pipe of process.stderr
    poll_pc,          \* where the engine is with this child
    step_status,      \* the classification of this child's step
    tick              \* flips whenever select() times out

vars == << template, installed, store, writes, pc, template_path, target,
           dry_run, resume, bound, variables, completed_steps, idx,
           undefined_vars, need_confirm, returncode, started, status,
           resolved, eof_steps, term_steps, kill_steps, loaded, store_at_start, saved,
           interrupted, fatal_step, error_logged, cmd, outcome, confirmed,
           alive, elapsed, subst_command, subst_variables, subst_result,
           listed, last_op, program, exit_code, stdout_pipe, stderr_pipe,
           poll_pc, step_status, tick >>

\* One pass of the loop body of _validate_variables_and_commands over step i,
\* with the accumulators acc, then the remaining steps.
RECURSIVE ValidateFrom(_, _, _, _)
ValidateFrom(steps, vs, i, acc) ==
    IF i > Len(steps) \/ acc.error THEN acc
    ELSE
      LET command == Get(steps[i], "command", <<>>)
          names == FindVars(command)
          undef == acc.undefined_vars \cup
                     {names[j] : j \in {k \in 1..Len(names) : names[k] \notin Keys(vs)}}
      IN  IF undef # {}
          THEN ValidateFrom(steps, vs, i + 1, [acc EXCEPT !.undefined_vars = undef])
          ELSE
            LET test_command == Substitute(command, vs)
                tokens == Split(test_command)
                paths == AbsPaths(test_command)
                bad == SelectSeq(paths, LAMBDA q : q \notin ExistingPaths)
            IN  IF tokens = <<>>
                THEN [acc EXCEPT !.error = TRUE]   \* split()[0]: IndexError
                ELSE
                  LET cmd_executable == tokens[1]
                      missing == IF Head(cmd_executable) # "/"
                                    /\ cmd_executable \notin installed
                                 THEN <<cmd_executable>> ELSE <<>>
                  IN  ValidateFrom(steps, vs, i + 1,
                        [acc EXCEPT !.invalid_paths = @ \o bad,
                                    !.missing_commands = @ \o missing])

\* _validate_variables_and_commands(workflow, variables)
ValidateVariablesAndCommands(workflow, vs) ==
    LET r == ValidateFrom(Get(workflow, "steps", <<>>), vs, 1,
                 [undefined_vars |-> {}, invalid_paths |-> <<>>,
                  missing_commands |-> <<>>, error |-> FALSE])
    IN  [has_issues |-> r.undefined_vars # {} \/ r.invalid_paths # <<>>
                          \/ r.missing_commands # <<>>,
         undefined_vars |-> r.undefined_vars,
         invalid_paths |-> r.invalid_paths,
         missing_commands |-> r.missing_commands,
         error |-> r.error]

----------------------------------------------------------------------------
\* State store

\* The directory with no state file.
EmptyStore == [k \in {} |-> {}]

\* save_state called before completed_steps.append(idx): the file gets the
\* list without its last element.
SaveStateBeforeAppend(st, path, workflow_name, tgt, cs, vs) ==
    LET state == [workflow_name |-> workflow_name,
                  template_path |-> path,
                  target |-> tgt,
                  completed_steps |-> SubSeq(cs, 1, Len(cs) - 1),
                  variables |-> vs]
        state_file == GetStateFilePath(workflow_name, tgt)
    IN  [k \in DOMAIN st \cup {state_file} |->
            IF k = state_file THEN state ELSE st[k]]

\* save_state that opens the file with mode 'x': an existing file is kept.
SaveStateNoOverwrite(st, path, workflow_name, tgt, cs, vs) ==
    LET state == [workflow_name |-> workflow_name,
                  template_path |-> path,
                  target |-> tgt,
                  completed_steps |-> cs,
                  variables |-> vs]
        state_file == GetStateFilePath(workflow_name, tgt)
    IN  [k \in DOMAIN st \cup {state_file} |->
            IF k \in DOMAIN st THEN st[k] ELSE state]

\* save_state: the state written to the file of (workflow_name, target),
\* replacing what the file held.  The timestamp field, which nothing but the
\* list-states printout reads, is left out; writes counts the writes.
SaveState(st, path, workflow_name, tgt, cs, vs) ==
    LET state == [workflow_name |-> workflow_name,
                  template_path |-> path,
                  target |-> tgt,
                  completed_steps |-> cs,
                  variables |-> vs]
        state_file == GetStateFilePath(workflow_name, tgt)
    IN  [k \in DOMAIN st \cup {state_file} |->
            IF k = state_file THEN state ELSE st[k]]

\* load_state: the set holding the state of (workflow_name, target), empty
\* for None.
LoadState(st, workflow_name, tgt) ==
    LET state_file == GetStateFilePath(workflow_name, tgt)
    IN  IF state_file \in DOMAIN st THEN {st[state_file]} ELSE {}

\* list_saved_states: every state file that can be read, with its file name
\* added as 'state_file'; the order is that of the glob.
ListSavedStates(st) == {[state |-> st[f], state_file |-> f] : f \in DOMAIN st}

\* A clear_state that leaves the file in place.
ClearStateNoUnlink(st, workflow_name, tgt) == st

\* clear_state: unlink the file if it exists.
ClearState(st, workflow_name, tgt) ==
    LET state_file == GetStateFilePath(workflow_name, tgt)
    IN  [k \in DOMAIN st \ {state_file} |-> st[k]]

----------------------------------------------------------------------------
\* The run command and execute_workflow

Steps == Get(template, "steps", <<>>)
total_steps == Len(Steps)

InCall == pc # "idle"

\* No command has been invoked yet: the states directory is empty.
Idle ==
    /\ store = EmptyStore
    /\ writes = 0
    /\ pc = "idle"
    /\ template_path = "none"
    /\ target = <<>>
    /\ dry_run = FALSE
    /\ resume = FALSE
    /\ bound = {}
    /\ variables = <<>>
    /\ completed_steps = <<>>
    /\ idx = 0
    /\ undefined_vars = {}
    /\ need_confirm = FALSE
    /\ returncode = 0
    /\ started = <<>>
    /\ status = [i \in 1..total_steps |-> "Pending"]
    /\ resolved = [i \in 1..total_steps |-> <<>>]
    /\ eof_steps = {}
    /\ term_steps = {}
    /\ kill_steps = {}
    /\ loaded = {}
    /\ store_at_start = EmptyStore
    /\ saved = {}
    /\ interrupted = "no"
    /\ fatal_step = 0
    /\ error_logged = FALSE
    /\ cmd = "none"
    /\ outcome = "none"
    /\ confirmed = FALSE
    /\ alive = {}
    /\ elapsed = FALSE

\* No method of the state store has been called on its own.
NoOp == [op |-> "none", workflow_name |-> <<>>, target |-> <<>>,
         before |-> EmptyStore]

\* No child is followed on its own.
NoChild ==
    /\ program = <<>>
    /\ exit_code = {}
    /\ stdout_pipe = 0
    /\ stderr_pipe = 0
    /\ poll_pc = "none"
    /\ step_status = "Pending"
    /\ tick = FALSE

\* No command is being resolved on its own, no store method called.
NoSubst ==
    /\ subst_command = <<>>
    /\ subst_variables = <<>>
    /\ subst_result = <<>>
    /\ listed = {}
    /\ last_op = NoOp
    /\ NoChild

Init ==
    /\ template \in Templates
    /\ installed \in SUBSET Executables
    /\ Idle
    /\ NoSubst

\* Variables no step of execute_workflow changes.
Env == << template, installed, template_path, target, dry_run, cmd,
          store_at_start, subst_command, subst_variables, subst_result,
          listed, last_op, program, exit_code, stdout_pipe, stderr_pipe,
          poll_pc, step_status, tick >>

\* The variables of the child followed on its own.
ChildVars == << program, exit_code, stdout_pipe, stderr_pipe, poll_pc,
               step_status, tick >>

\* History variables only a few steps of execute_workflow change.
Ghost == << confirmed, alive, elapsed >>

\* run(template, target, dry_run, verbose, resume): the template passes
\* validate_workflow_template and execute_workflow is entered; line 280-281.
Run(path, tgt, dry, res) ==
    /\ pc = "idle"
    /\ cmd' = "run"
    /\ pc' = "start"
    /\ template_path' = path
    /\ target' = tgt
    /\ dry_run' = dry
    /\ resume' = res
    /\ bound' = {}
    /\ variables' = <<>>
    /\ completed_steps' = <<>>
    /\ idx' = 0
    /\ undefined_vars' = {}
    /\ need_confirm' = FALSE
    /\ returncode' = 0
    /\ started' = <<>>
    /\ status' = [i \in 1..total_steps |-> "Pending"]
    /\ resolved' = [i \in 1..total_steps |-> <<>>]
    /\ eof_steps' = {}
    /\ term_steps' = {}
    /\ kill_steps' = {}
    /\ loaded' = {}
    /\ store_at_start' = store
    /\ saved' = {}
    /\ interrupted' = "no"
    /\ fatal_step' = 0
    /\ error_logged' = FALSE
    /\ outcome' = "none"
    /\ writes' = 0
    /\ confirmed' = FALSE
    /\ alive' = {}
    /\ elapsed' = FALSE
    /\ UNCHANGED << template, installed, store, subst_command,
                    subst_variables, subst_result, listed, last_op,
                    ChildVars >>

\* execute_workflow returns to run, which returns to click: exit code 0.
Return == pc' = "idle" /\ outcome' = "returned"

\* except Exception (line 428-430): the error is printed and logged, and
\* execute_workflow returns.
CaughtException == Return /\ error_logged' = TRUE

\* Line 283-284: the template is opened and parsed.
LoadTemplate ==
    /\ pc = "start"
    /\ bound' = bound \cup {"workflow"}
    /\ pc' = "loaded"
    /\ UNCHANGED << Env, Ghost, store, writes, resume, variables, completed_steps, idx,
                    undefined_vars, need_confirm, returncode, started, status,
                    resolved, eof_steps, term_steps, kill_steps, loaded, saved,
                    interrupted, fatal_step, error_logged, outcome >>

\* Line 286-294: the resume check.
ResumeCheck ==
    /\ pc = "loaded"
    /\ LET state == LoadState(store, template.name, target)
           match == {s \in state : s.template_path = template_path}
       IN  IF resume /\ match # {}
           THEN LET s == CHOOSE s \in match : TRUE
                IN  /\ completed_steps' = s.completed_steps
                    /\ variables' = s.variables
                    /\ bound' = bound \cup {"variables"}
                    /\ loaded' = {s}
                    /\ resume' = resume
           ELSE /\ resume' = FALSE
                /\ UNCHANGED << completed_steps, variables, bound, loaded >>
    /\ pc' = "resumed"
    /\ UNCHANGED << Env, Ghost, store, writes, idx, undefined_vars, need_confirm,
                    returncode, started, status, resolved, eof_steps,
                    term_steps, kill_steps, saved, interrupted, fatal_step, error_logged,
                    outcome >>

\* Line 296-300: variables = workflow.get('variables', {}) with TARGET set.
BindVariables ==
    /\ pc = "resumed"
    /\ variables' = DictSet(Get(template, "variables", <<>>), TARGET, StrValue(target))
    /\ bound' = bound \cup {"variables"}
    /\ pc' = "validate"
    /\ UNCHANGED << Env, Ghost, store, writes, resume, completed_steps, idx,
                    undefined_vars, need_confirm, returncode, started, status,
                    resolved, eof_steps, term_steps, kill_steps, loaded, saved,
                    interrupted, fatal_step, error_logged, outcome >>

\* Line 302-333, first call of the validator.
Validate ==
    /\ pc = "validate"
    /\ LET v == ValidateVariablesAndCommands(template, variables)
       IN  IF v.error
           THEN /\ CaughtException
                /\ UNCHANGED << undefined_vars, need_confirm >>
           ELSE /\ undefined_vars' = v.undefined_vars
                /\ need_confirm' = (v.invalid_paths # <<>> \/ v.missing_commands # <<>>)
                /\ pc' = IF ~v.has_issues THEN "validated"
                         ELSE IF v.undefined_vars # {} THEN "prompt"
                         ELSE "confirm"
                /\ UNCHANGED << outcome, error_logged >>
    /\ UNCHANGED << Env, Ghost, store, writes, resume, bound, variables,
                    completed_steps, idx, returncode, started, status,
                    resolved, eof_steps, term_steps, kill_steps, loaded, saved,
                    interrupted, fatal_step >>

\* Line 309-311: click.prompt for one of the undefined variables; the list
\* comes from a set, so the order is any.
Prompt(var, value) ==
    /\ pc = "prompt"
    /\ var \in undefined_vars
    /\ variables' = DictSet(variables, var, StrValue(value))
    /\ undefined_vars' = undefined_vars \ {var}
    /\ pc' = IF undefined_vars' # {} THEN "prompt"
             ELSE IF need_confirm THEN "confirm" ELSE "revalidate"
    /\ UNCHANGED << Env, Ghost, store, writes, resume, bound, completed_steps, idx,
                    need_confirm, returncode, started, status, resolved,
                    eof_steps, term_steps, kill_steps, loaded, saved, interrupted,
                    fatal_step, error_logged, outcome >>

\* Ctrl+C or end-of-input at click.prompt / click.confirm: click raises Abort,
\* a RuntimeError, which "except Exception" catches.
PromptAbort ==
    /\ pc \in {"prompt", "confirm"}
    /\ CaughtException
    /\ UNCHANGED << Env, Ghost, store, writes, resume, bound, variables,
                    completed_steps, idx, undefined_vars, need_confirm,
                    returncode, started, status, resolved, eof_steps,
                    term_steps, kill_steps, loaded, saved, interrupted, fatal_step >>

\* Line 323-326: click.confirm.
Confirm(answer) ==
    /\ pc = "confirm"
    /\ confirmed' = answer
    /\ IF answer
       THEN pc' = "revalidate" /\ UNCHANGED outcome
       ELSE Return
    /\ UNCHANGED << Env, alive, elapsed, store, writes, resume, bound, variables,
                    completed_steps, idx, undefined_vars, need_confirm,
                    returncode, started, status, resolved, eof_steps,
                    term_steps, kill_steps, loaded, saved, interrupted, fatal_step,
                    error_logged >>

\* Line 328-331: the second call of the validator.
Revalidate ==
    /\ pc = "revalidate"
    /\ LET v == ValidateVariablesAndCommands(template, variables)
       IN  IF v.error THEN CaughtException
           ELSE IF v.undefined_vars # {} THEN Return /\ UNCHANGED error_logged
           ELSE pc' = "validated" /\ UNCHANGED << outcome, error_logged >>
    /\ UNCHANGED << Env, Ghost, store, writes, resume, bound, variables,
                    completed_steps, idx, undefined_vars, need_confirm,
                    returncode, started, status, resolved, eof_steps,
                    term_steps, kill_steps, loaded, saved, interrupted, fatal_step >>

\* Line 335-342: dry run prints the commands and returns.
DryRun ==
    /\ pc = "validated"
    /\ dry_run
    /\ Return
    /\ UNCHANGED << Env, Ghost, store, writes, resume, bound, variables,
                    completed_steps, idx, undefined_vars, need_confirm,
                    returncode, started, status, resolved, eof_steps,
                    term_steps, kill_steps, loaded, saved, interrupted, fatal_step,
                    error_logged >>

\* Line 344-345: the step loop is entered.
EnterLoop ==
    /\ pc = "validated"
    /\ ~dry_run
    /\ idx' = 1
    /\ pc' = "loop"
    /\ UNCHANGED << Env, Ghost, store, writes, resume, bound, variables,
                    completed_steps, undefined_vars, need_confirm,
                    returncode, started, status, resolved, eof_steps,
                    term_steps, kill_steps, loaded, saved, interrupted, fatal_step,
                    error_logged, outcome >>

\* The for loop is exhausted: execute_workflow returns.
LoopEnd ==
    /\ pc = "loop"
    /\ idx > total_steps
    /\ Return
    /\ UNCHANGED << Env, Ghost, store, writes, resume, bound, variables,
                    completed_steps, idx, undefined_vars, need_confirm,
                    returncode, started, status, resolved, eof_steps,
                    term_steps, kill_steps, loaded, saved, interrupted, fatal_step,
                    error_logged >>

\* A membership test that never finds the index.
InListNever(i, cs) == FALSE

\* idx in completed_steps
InList(i, cs) == \E j \in 1..Len(cs) : cs[j] = i

\* Line 346-348: a resumed run passes over a completed step.
SkipCompleted ==
    /\ pc = "loop"
    /\ idx <= total_steps
    /\ resume /\ InList(idx, completed_steps)
    /\ idx' = idx + 1
    /\ UNCHANGED << Env, Ghost, store, writes, pc, resume, bound, variables,
                    completed_steps, undefined_vars, need_confirm,
                    returncode, started, status, resolved, eof_steps,
                    term_steps, kill_steps, loaded, saved, interrupted, fatal_step,
                    error_logged, outcome >>

\* Line 350-371 and 416-418: the command is resolved; without a marker left
\* it is given to Popen, with one the run ends in "Variable substitution
\* incomplete".
StartStep ==
    /\ pc = "loop"
    /\ idx <= total_steps
    /\ ~(resume /\ InList(idx, completed_steps))
    /\ LET command == Substitute(Get(Steps[idx], "command", <<>>), variables)
       IN  IF ~HasMarker(command)
           THEN /\ started' = Append(started, idx)
                /\ alive' = alive \cup {idx}
                /\ status' = [status EXCEPT ![idx] = "Running"]
                /\ resolved' = [resolved EXCEPT ![idx] = command]
                /\ pc' = "running"
                /\ UNCHANGED << outcome, error_logged >>
           ELSE /\ status' = [status EXCEPT ![idx] = "Failed"]
                /\ CaughtException
                /\ UNCHANGED << started, resolved, alive >>
    /\ UNCHANGED << Env, confirmed, elapsed, store, writes, resume, bound, variables,
                    completed_steps, idx, undefined_vars, need_confirm,
                    returncode, eof_steps, term_steps, kill_steps, loaded, saved,
                    interrupted, fatal_step >>

\* The exit codes the child of the current step can end with on its own.
ChildExitCodes ==
    LET tokens == Split(resolved[idx])
    IN  IF tokens # <<>> /\ (Head(tokens[1]) = "/" \/ tokens[1] \in installed)
        THEN OwnExitCodes ELSE NotFoundCodes

\* A loop that goes on to the next step without waiting for the child.
ReapedNever(children, i) == children

\* The children still alive once step i's child has ended: the poll loop is
\* left when process.poll() is not None, or after terminate()/kill(), and
\* process.communicate() then waits for the end of the child.
Reaped(children, i) == children \ {i}

\* The declared timeout of the running step runs out while its child is
\* still running.  No line of execute_workflow reads step['timeout'] or
\* passes a timeout to Popen, poll or communicate: the engine does not move.
TimeoutElapses ==
    /\ pc = "running"
    /\ "timeout" \in DOMAIN Steps[idx]
    /\ ~elapsed
    /\ elapsed' = TRUE
    /\ UNCHANGED << Env, confirmed, alive, store, writes, pc, resume, bound,
                    variables, completed_steps, idx, undefined_vars,
                    need_confirm, returncode, started, status, resolved,
                    eof_steps, term_steps, kill_steps, loaded, saved,
                    interrupted, fatal_step, error_logged, outcome >>

\* Line 373: process.poll() sees that the child has exited.
ChildExit(code) ==
    /\ pc = "running"
    /\ code \in ChildExitCodes
    /\ returncode' = code
    /\ alive' = Reaped(alive, idx)
    /\ pc' = "exited"
    /\ UNCHANGED << Env, confirmed, elapsed, store, writes, resume, bound, variables,
                    completed_steps, idx, undefined_vars, need_confirm,
                    started, status, resolved, eof_steps, term_steps, kill_steps, loaded,
                    saved, interrupted, fatal_step, error_logged, outcome >>

\* Line 383-392: sys.stdin.readline() returns '' while the child runs;
\* process.terminate(), process.wait(timeout=5), process.kill() on
\* TimeoutExpired.  The child dies of SIGTERM, or has ended on its own by
\* the time the signal is sent or handles the signal and exits by itself, or
\* outlives the wait and is killed.
OperatorEOF(code) ==
    /\ pc = "running"
    /\ code \in {Terminated, Killed} \cup ChildExitCodes
    /\ eof_steps' = eof_steps \cup {idx}
    /\ term_steps' = IF code = Terminated THEN term_steps \cup {idx} ELSE term_steps
    /\ kill_steps' = IF code = Killed THEN kill_steps \cup {idx} ELSE kill_steps
    /\ returncode' = code
    /\ alive' = Reaped(alive, idx)
    /\ pc' = "exited"
    /\ UNCHANGED << Env, confirmed, elapsed, store, writes, resume, bound, variables,
                    completed_steps, idx, undefined_vars, need_confirm,
                    started, status, resolved, loaded, saved, interrupted,
                    fatal_step, error_logged, outcome >>

\* A classification that knows exit code 0 only.
ClassificationZeroOnly(rc) ==
    IF rc = 0 THEN "Completed" ELSE "Failed"

\* The classification line 400-408 gives to a return code.
Classification(rc) ==
    IF rc = 0 THEN "Completed"
    ELSE IF rc = Terminated THEN "Skipped"
    ELSE "Failed"

\* An append that puts the index in front.
AppendedInFront(cs, i) == <<i>> \o cs

\* completed_steps.append(idx)
Appended(cs, i) == Append(cs, i)

\* Line 398-420: communicate(), the classification, the raise of a failed
\* step without continue_on_error, else completed_steps.append(idx).
Classify ==
    /\ pc = "exited"
    /\ status' = [status EXCEPT ![idx] = Classification(returncode)]
    /\ IF Classification(returncode) = "Failed"
          /\ ~Get(Steps[idx], "continue_on_error", FALSE)
       THEN /\ fatal_step' = idx
            /\ CaughtException
            /\ UNCHANGED completed_steps
       ELSE /\ completed_steps' = Appended(completed_steps, idx)
            /\ pc' = "save"
            /\ UNCHANGED << fatal_step, error_logged, outcome >>
    /\ UNCHANGED << Env, Ghost, store, writes, resume, bound, variables, idx,
                    undefined_vars, need_confirm, returncode, started,
                    resolved, eof_steps, term_steps, kill_steps, loaded, saved,
                    interrupted >>

\* Line 421: the checkpoint after the step, then the next loop index.
SaveCheckpoint ==
    /\ pc = "save"
    /\ store' = SaveState(store, template_path, template.name, target,
                          completed_steps, variables)
    /\ writes' = writes + 1
    /\ saved' = {[completed_steps |-> completed_steps, variables |-> variables]}
    /\ idx' = idx + 1
    /\ elapsed' = FALSE
    /\ pc' = "loop"
    /\ UNCHANGED << Env, confirmed, alive, resume, bound, variables, completed_steps,
                    undefined_vars, need_confirm, returncode, started, status,
                    resolved, eof_steps, term_steps, kill_steps, loaded, interrupted,
                    fatal_step, error_logged, outcome >>

\* The positions of execute_workflow at which SIGINT raises KeyboardInterrupt
\* in the engine (at the prompts click turns it into Abort).
Interruptible == {"start", "loaded", "resumed", "validate", "revalidate",
                  "validated", "loop", "running", "exited", "save"}

\* Line 423-426: except KeyboardInterrupt.  The handler reads workflow,
\* completed_steps and variables; a name not yet bound raises
\* UnboundLocalError out of the handler.
Interrupt ==
    /\ pc \in Interruptible
    /\ interrupted' = pc
    /\ pc' = "idle"
    /\ IF {"workflow", "variables"} \subseteq bound
       THEN /\ store' = SaveState(store, template_path, template.name, target,
                                  completed_steps, variables)
            /\ writes' = writes + 1
            /\ saved' = {[completed_steps |-> completed_steps,
                          variables |-> variables]}
            /\ outcome' = "exit0"
       ELSE /\ outcome' = "unhandled"
            /\ UNCHANGED << store, writes, saved >>
    /\ UNCHANGED << Env, Ghost, resume, bound, variables, completed_steps, idx,
                    undefined_vars, need_confirm, returncode, started, status,
                    resolved, eof_steps, term_steps, kill_steps, loaded, fatal_step,
                    error_logged >>

\* The clear-state command.
ClearStateCmd(workflow_name, tgt) ==
    /\ pc = "idle"
    /\ cmd' = "clear_state"
    /\ store_at_start' = store
    /\ store' = ClearState(store, workflow_name, tgt)
    /\ writes' = IF GetStateFilePath(workflow_name, tgt) \in DOMAIN store THEN 1 ELSE 0
    /\ outcome' = "returned"
    /\ UNCHANGED << template, installed, pc, template_path, target,
                    dry_run, resume, bound, variables, completed_steps, idx,
                    undefined_vars, need_confirm, returncode, started, status,
                    resolved, eof_steps, term_steps, kill_steps, loaded, saved,
                    interrupted, fatal_step, error_logged, Ghost,
                    subst_command, subst_variables, subst_result, listed,
                    last_op, ChildVars >>

Next ==
    \/ \E path \in TemplatePaths, tgt \in Targets, dry \in BOOLEAN, res \in BOOLEAN :
          Run(path, tgt, dry, res)
    \/ LoadTemplate
    \/ ResumeCheck
    \/ BindVariables
    \/ Validate
    \/ \E var \in undefined_vars, value \in PromptValues : Prompt(var, value)
    \/ PromptAbort
    \/ \E answer \in BOOLEAN : Confirm(answer)
    \/ Revalidate
    \/ DryRun
    \/ EnterLoop
    \/ LoopEnd
    \/ SkipCompleted
    \/ StartStep
    \/ TimeoutElapses
    \/ \E code \in OwnExitCodes \cup NotFoundCodes : ChildExit(code)
    \/ \E code \in {Terminated, Killed} \cup OwnExitCodes \cup NotFoundCodes :
          OperatorEOF(code)
    \/ Classify
    \/ SaveCheckpoint
    \/ Interrupt
    \/ \E tgt \in Targets : ClearStateCmd(<<"w">>, tgt)

Spec == Init /\ [][Next]_vars

----------------------------------------------------------------------------
\* Documents whose commands write a placeholder with blanks around the name

\* "e {{ X }}"
CmdSpaced == <<"e", " ", "{", "{", " ", "X", " ", "}", "}">>

StepSpecsSpaced ==
    { [name |-> <<"s">>, command |-> CmdTarget, timeout |-> StepTimeout],
      [name |-> <<"s">>, command |-> CmdX, continue_on_error |-> FALSE],
      [name |-> <<"s">>, command |-> CmdSpaced, continue_on_error |-> TRUE],
      [name |-> <<"s">>, command |-> CmdSpaced, continue_on_error |-> FALSE] }

TemplatesSpaced ==
    { [name |-> <<"w">>, steps |-> st] :
        st \in UNION {[1..n -> StepSpecsSpaced] : n \in 1..MaxSteps} }

InitSpaced ==
    /\ template \in TemplatesSpaced
    /\ installed \in SUBSET Executables
    /\ Idle
    /\ NoSubst

SpecSpaced == InitSpaced /\ [][Next]_vars

----------------------------------------------------------------------------
\* The substitution of line 355-356 on its own

\* The longest variable set given to the substitution.
MaxVars == 2

SubstNames == {<<"A">>, <<"B">>}
\* Values of variables: a plain word, and words that look like placeholders.
SubstValues == {<<"u">>, Placeholder(<<"A">>), Placeholder(<<"B">>)}

\* "{{A}}", "{{ A }}", "{{A}} {{B}}", "{{B}} {{A}}", "{{A}}{{A}}", "e"
SubstCommands ==
    { Placeholder(<<"A">>),
      <<"{", "{", " ", "A", " ", "}", "}">>,
      Placeholder(<<"A">>) \o <<" ">> \o Placeholder(<<"B">>),
      Placeholder(<<"B">>) \o <<" ">> \o Placeholder(<<"A">>),
      Placeholder(<<"A">>) \o Placeholder(<<"A">>),
      <<"e">> }

\* Dicts of at most MaxVars variables, in every insertion order.
VariableSets ==
    { d \in UNION {[1..n -> SubstNames \X {StrValue(v) : v \in SubstValues}] :
                      n \in 0..MaxVars} :
        \A i, j \in 1..Len(d) : i # j => d[i][1] # d[j][1] }

InitSubst ==
    /\ template = [name |-> <<"w">>, steps |-> <<>>]
    /\ installed = {}
    /\ Idle
    /\ subst_command \in SubstCommands
    /\ subst_variables \in VariableSets
    /\ subst_result = <<>>
    /\ listed = {}
    /\ last_op = NoOp
    /\ NoChild

\* Line 354-356: command = step['command'], then one replace per variable.
ResolveCommand ==
    /\ subst_result = <<>>
    /\ subst_result' = << Substitute(subst_command, subst_variables) >>
    /\ UNCHANGED << template, installed, store, writes, pc, template_path,
                    target, dry_run, resume, bound, variables,
                    completed_steps, idx, undefined_vars, need_confirm,
                    returncode, started, status, resolved, eof_steps,
                    term_steps, kill_steps, loaded, store_at_start, saved,
                    interrupted, fatal_step, error_logged, cmd, outcome,
                    Ghost, subst_command, subst_variables, listed, last_op,
                    ChildVars >>

NextSubst == ResolveCommand

SpecSubst == InitSubst /\ [][NextSubst]_vars

----------------------------------------------------------------------------
\* The state store on its own: save_state, load_state, list_saved_states
\* and clear_state called in any order for several (workflow_name, target)

\* Workflow names and targets; both may contain "_", the character
\* _generate_state_id joins them with.
StoreNames == {<<"a">>, <<"a", "_", "b">>}
StoreTargets == {<<"c">>, <<"b", "_", "c">>}
\* The completed_steps lists given to save_state.
StoreLists == {<<1>>, <<1, 2>>}

InitStore ==
    /\ template = [name |-> <<"w">>, steps |-> <<>>]
    /\ installed = {}
    /\ Idle
    /\ NoSubst

\* What no method of the state store changes.
StoreFrame ==
    << template, installed, writes, pc, template_path, target, dry_run,
       resume, bound, variables, completed_steps, idx, undefined_vars,
       need_confirm, returncode, started, status, resolved, eof_steps,
       term_steps, kill_steps, store_at_start, saved, interrupted,
       fatal_step, error_logged, outcome, Ghost, subst_command,
       subst_variables, subst_result, ChildVars >>

\* The call op(workflow_name, tgt) made on the store as it is now.
Call(op, workflow_name, tgt) ==
    [op |-> op, workflow_name |-> workflow_name, target |-> tgt,
     before |-> store]

\* engine.save_state(workflow_name, target, completed_steps, variables)
StoreSave(workflow_name, tgt, cs) ==
    /\ store' = SaveState(store, "p1", workflow_name, tgt, cs, <<>>)
    /\ last_op' = Call("save", workflow_name, tgt)
    /\ cmd' = "save_state"
    /\ UNCHANGED << StoreFrame, loaded, listed >>

\* engine.load_state(workflow_name, target)
StoreLoad(workflow_name, tgt) ==
    /\ loaded' = LoadState(store, workflow_name, tgt)
    /\ last_op' = Call("load", workflow_name, tgt)
    /\ cmd' = "load_state"
    /\ UNCHANGED << StoreFrame, store, listed >>

\* engine.list_saved_states()
StoreList ==
    /\ listed' = ListSavedStates(store)
    /\ cmd' = "list_states"
    /\ UNCHANGED << StoreFrame, store, loaded, last_op >>

\* engine.clear_state(workflow_name, target)
StoreClear(workflow_name, tgt) ==
    /\ store' = ClearState(store, workflow_name, tgt)
    /\ last_op' = Call("clear", workflow_name, tgt)
    /\ cmd' = "clear_state"
    /\ UNCHANGED << StoreFrame, loaded, listed >>

NextStore ==
    \/ \E n \in StoreNames, t \in StoreTargets, cs \in StoreLists :
          StoreSave(n, t, cs)
    \/ \E n \in StoreNames, t \in StoreTargets : StoreLoad(n, t)
    \/ StoreList
    \/ \E n \in StoreNames, t \in StoreTargets : StoreClear(n, t)

SpecStore == InitStore /\ [][NextStore]_vars

----------------------------------------------------------------------------
\* One running step on its own: the child, its two pipes and the poll loop
\* of line 363-408

\* The number of writes of the longest child.
MaxWrites == 3
\* What a pipe holds before a write to it blocks.
PipeCapacity == 1

\* A child writes lines to its output and blocks to its error stream, in
\* some order, and then exits.
Programs == UNION {[1..n -> {"out", "err"}] : n \in 0..MaxWrites}

\* What the rest of the module keeps while one child is followed.
PipeFrame ==
    << template, installed, store, writes, pc, template_path, target,
       dry_run, resume, bound, variables, completed_steps, idx,
       undefined_vars, need_confirm, returncode, started, status, resolved,
       eof_steps, term_steps, kill_steps, loaded, store_at_start, saved,
       interrupted, fatal_step, error_logged, cmd, outcome, Ghost,
       subst_command, subst_variables, subst_result, listed, last_op >>

\* Line 363-371: Popen with stdout=PIPE and stderr=PIPE has returned.
InitPipe ==
    /\ template = [name |-> <<"w">>, steps |-> <<>>]
    /\ installed = {}
    /\ Idle
    /\ subst_command = <<>>
    /\ subst_variables = <<>>
    /\ subst_result = <<>>
    /\ listed = {}
    /\ last_op = NoOp
    /\ program \in Programs
    /\ exit_code = {}
    /\ stdout_pipe = 0
    /\ stderr_pipe = 0
    /\ poll_pc = "poll"
    /\ step_status = "Running"
    /\ tick = FALSE

\* The child does its next write; a write to a full pipe blocks.
ChildWrite ==
    /\ exit_code = {}
    /\ program # <<>>
    /\ IF Head(program) = "out"
       THEN /\ stdout_pipe < PipeCapacity
            /\ stdout_pipe' = stdout_pipe + 1
            /\ UNCHANGED stderr_pipe
       ELSE /\ stderr_pipe < PipeCapacity
            /\ stderr_pipe' = stderr_pipe + 1
            /\ UNCHANGED stdout_pipe
    /\ program' = Tail(program)
    /\ UNCHANGED << PipeFrame, exit_code, poll_pc, step_status, tick >>

\* The child has written everything and exits.
ChildEnd(code) ==
    /\ exit_code = {}
    /\ program = <<>>
    /\ exit_code' = {code}
    /\ UNCHANGED << PipeFrame, program, stdout_pipe, stderr_pipe, poll_pc,
                    step_status, tick >>

\* Line 373: process.poll() is not None, the while loop ends.
PollExit ==
    /\ poll_pc = "poll"
    /\ exit_code # {}
    /\ poll_pc' = "communicate"
    /\ UNCHANGED << PipeFrame, program, exit_code, stdout_pipe, stderr_pipe,
                    step_status, tick >>

\* Line 376-381: process.stdout is readable, one line is read and printed.
PollReadLine ==
    /\ poll_pc = "poll"
    /\ exit_code = {}
    /\ stdout_pipe > 0
    /\ stdout_pipe' = stdout_pipe - 1
    /\ UNCHANGED << PipeFrame, program, exit_code, stderr_pipe, poll_pc,
                    step_status, tick >>

\* Line 376: select() on sys.stdin and process.stdout times out after 0.1 s
\* and the loop goes round; process.stderr is not among the files watched.
PollTimeout ==
    /\ poll_pc = "poll"
    /\ exit_code = {}
    /\ stdout_pipe = 0
    /\ tick' = ~tick
    /\ UNCHANGED << PipeFrame, program, exit_code, stdout_pipe, stderr_pipe,
                    poll_pc, step_status >>

\* Line 383-392: the operator ends the input; terminate(), wait(5), kill().
PollEOF(code) ==
    /\ poll_pc = "poll"
    /\ exit_code = {}
    /\ exit_code' = {code}
    /\ poll_pc' = "communicate"
    /\ UNCHANGED << PipeFrame, program, stdout_pipe, stderr_pipe,
                    step_status, tick >>

\* Line 398-406: communicate() reads both pipes to their end and reaps the
\* child; the return code is classified.
Communicate ==
    /\ poll_pc = "communicate"
    /\ stdout_pipe' = 0
    /\ stderr_pipe' = 0
    /\ step_status' = Classification(CHOOSE c \in exit_code : TRUE)
    /\ poll_pc' = "done"
    /\ UNCHANGED << PipeFrame, program, exit_code, tick >>

NextPipe ==
    \/ ChildWrite
    \/ \E code \in OwnExitCodes : ChildEnd(code)
    \/ PollExit
    \/ PollReadLine
    \/ PollTimeout
    \/ \E code \in {Terminated, Killed} : PollEOF(code)
    \/ Communicate

\* The child runs whenever it is not blocked, and the engine's loop goes
\* on; the operator need not do anything.
FairPipe ==
    /\ WF_vars(ChildWrite)
    /\ WF_vars(\E code \in OwnExitCodes : ChildEnd(code))
    /\ WF_vars(PollExit)
    /\ WF_vars(PollReadLine)
    /\ WF_vars(PollTimeout)
    /\ WF_vars(Communicate)

SpecPipe == InitPipe /\ [][NextPipe]_vars /\ FairPipe

----------------------------------------------------------------------------
\* Definitions used by the properties

\* <<1, ..., n>>
UpTo(n) == [i \in 1..n |-> i]
\* <<a, ..., b>>
FromTo(a, b) == [i \in 1..(IF b >= a THEN b - a + 1 ELSE 0) |-> a + i - 1]
IsPrefix(p, q) == Len(p) <= Len(q) /\ SubSeq(q, 1, Len(p)) = p
Elems(q) == {q[i] : i \in 1..Len(q)}

\* The completed_steps in the state file of the run's (workflow, target);
\* the empty list when there is no file.
PersistedSteps ==
    LET state == LoadState(store, template.name, target)
    IN  IF state = {} THEN <<>> ELSE (CHOOSE s \in state : TRUE).completed_steps

\* The last run command has ended.
Finished == cmd = "run" /\ pc = "idle" /\ outcome # "none"
\* The last run command went through the whole step loop and returned.
RanToCompletion == Finished /\ outcome = "returned" /\ idx = total_steps + 1

\* The state file is the in-memory list, or lacks only its last element.
OneStale ==
    \/ PersistedSteps = completed_steps
    \/ /\ completed_steps # <<>>
       /\ PersistedSteps = SubSeq(completed_steps, 1, Len(completed_steps) - 1)

TypeOK ==
    /\ pc \in {"idle", "prompt", "confirm"} \cup Interruptible
    /\ outcome \in {"none", "returned", "exit0", "unhandled"}
    /\ idx \in 0..(total_steps + 1)

----------------------------------------------------------------------------
\* Properties

\* C1: a run from the beginning (no state accepted by the resume check) that
\* goes through the whole step loop ends with completed_steps = <<1..N>>, and
\* the state file of its (workflow, target) holds that list.
C1_CompleteRunRecordsAllSteps ==
    (RanToCompletion /\ loaded = {}) =>
        /\ completed_steps = UpTo(total_steps)
        /\ LoadState(store, template.name, target) # {}
        /\ PersistedSteps = UpTo(total_steps)

C1_Witness ==
    /\ RanToCompletion /\ loaded = {}
    /\ total_steps >= 2
    /\ Len(started) = total_steps

\* C2: a run resumed from a saved state with completed_steps = <<1..k>>
\* launches no step of 1..k, launches the steps k+1..N in order (all of them
\* when it goes through the whole loop), and keeps <<1..k>> as the prefix of
\* completed_steps, appending only later indices.
C2_ResumeRunsOnlyRemainingSteps ==
    \A s \in loaded :
        LET k == Len(s.completed_steps)
        IN  (cmd = "run" /\ s.completed_steps = UpTo(k)) =>
              /\ IsPrefix(started, FromTo(k + 1, total_steps))
              /\ IsPrefix(UpTo(k), completed_steps)
              /\ \A j \in (k + 1)..Len(completed_steps) : completed_steps[j] > k
              /\ RanToCompletion => started = FromTo(k + 1, total_steps)

C2_Witness ==
    /\ RanToCompletion
    /\ \E s \in loaded : Len(s.completed_steps) = 1
    /\ started = <<2>>
    /\ completed_steps = <<1, 2>>

\* C3: in a resumed run, a variable whose saved value differs from the freshly
\* computed one appears with its saved value in the command of every step
\* launched.
C3_ResumeUsesLoadedVariables ==
    \A s \in loaded : \A i \in Elems(started) :
        \A var \in Keys(s.variables) \cap Keys(variables) :
            ( /\ cmd = "run"
              /\ Lookup(s.variables, var) # Lookup(variables, var)
              /\ Contains(Steps[i].command, Placeholder(var)) )
            => resolved[i] = Substitute(Steps[i].command, s.variables)

\* C4: for a step whose child exits on its own with a non-zero code: with
\* continue_on_error the run goes on to the next step; without it no later
\* step is started and neither completed_steps nor the state file contains
\* its index i or a later one.
C4_FailedStepHandling ==
    cmd = "run" =>
      /\ \A i \in Elems(started) \ eof_steps :
            (status[i] = "Failed" /\ Get(Steps[i], "continue_on_error", FALSE))
            => /\ fatal_step # i
               /\ (Finished /\ interrupted = "no") => idx > i
      /\ (fatal_step # 0 /\ fatal_step \notin eof_steps) =>
            /\ \A j \in Elems(started) : j <= fatal_step
            /\ \A j \in Elems(completed_steps) : j < fatal_step
            /\ \A j \in Elems(PersistedSteps) : j < fatal_step

\* C5: a run ended by a failed step without continue_on_error does not end
\* the way a successful run does (a normal return, exit code 0).
C5_FailurePropagated ==
    (Finished /\ fatal_step # 0) => outcome # "returned"

\* C6 as claimed: in every state of a run the state file differs from the
\* in-memory completed_steps by at most the last finished step.
C6_NeverMoreThanOneStepStale ==
    (cmd = "run" /\ InCall) => OneStale

\* C6 (amended): the index of a step that ended Completed or Skipped is in
\* completed_steps; from the resume check of a resumed run, and from the
\* first checkpoint of any run, the state file differs from the in-memory
\* completed_steps by at most the last finished step, and it equals it
\* whenever a step is about to start or is running.
C6_OneStepStaleAfterFirstCheckpoint ==
    cmd = "run" =>
      /\ \A i \in 1..total_steps :
            status[i] \in {"Completed", "Skipped"} => InList(i, completed_steps)
      /\ (InCall /\ (loaded # {} \/ saved # {})) =>
            /\ OneStale
            /\ pc \in {"loop", "running", "exited"}
                  => PersistedSteps = completed_steps

C6_Witness ==
    /\ pc = "running" /\ idx = 2 /\ loaded = {}
    /\ status[1] \in {"Completed", "Skipped"}
    /\ PersistedSteps = <<1>>

\* C7: a step whose child the engine ended after the operator's end-of-input,
\* by the terminate signal or by the forceful kill, is classified Skipped,
\* never Failed, and does not end the run.
C7_CancelledStepIsSkipped ==
    \A i \in term_steps \cup kill_steps :
        /\ i \in eof_steps
        /\ status[i] \in {"Running", "Skipped"}
        /\ fatal_step # i

C9_InterruptCheckpointsAndExits ==
    (cmd = "run" /\ interrupted # "no") =>
        /\ outcome = "exit0"
        /\ saved = {[completed_steps |-> completed_steps, variables |-> variables]}

\* C10: a dry run launches no process and leaves every state file as it was.
C10_DryRunTouchesNothing ==
    (cmd = "run" /\ dry_run) =>
        /\ started = <<>>
        /\ writes = 0
        /\ store = store_at_start

\* The names a command may refer to.
VarNames == {TARGET, <<"X">>} \cup SubstNames
\* The ways of writing the placeholder of a name: "{{name}}", and with a
\* blank on either side of the name.
PlaceholderForms(name) ==
    { <<"{", "{">> \o l \o name \o r \o <<"}", "}">> :
        l \in {<<>>, <<" ">>}, r \in {<<>>, <<" ">>} }
\* The names a command refers to in any of these ways.
ReferencedNames(command) ==
    {n \in VarNames : \E f \in PlaceholderForms(n) : Contains(command, f)}

\* C11: once a process has been launched, every name some step of the
\* workflow refers to by a placeholder, written with or without blanks around
\* the name, is in the variable set or was reported as undefined and prompted
\* for (the prompt puts it into variables): no step is launched while a
\* placeholder of the workflow is unreported.
C11_NoLaunchWhilePlaceholderUnreported ==
    started # <<>> =>
        \A i \in 1..total_steps :
            ReferencedNames(Get(Steps[i], "command", <<>>)) \subseteq Keys(variables)

\* Step i, with the variables resolved, names an executable that is not
\* installed or an absolute path that does not exist.
RefersToMissing(i) ==
    LET command == Substitute(Get(Steps[i], "command", <<>>), variables)
        tokens == Split(command)
        paths == AbsPaths(command)
    IN  \/ tokens # <<>> /\ Head(tokens[1]) # "/" /\ tokens[1] \notin installed
        \/ \E j \in 1..Len(paths) : paths[j] \notin ExistingPaths

\* C12: when some step of the workflow, with the variables resolved, names a
\* missing executable or a non-existent absolute path, a process is launched
\* only after the operator was asked and confirmed.
C12_NoLaunchWithoutConfirmation ==
    (started # <<>> /\ \E i \in 1..total_steps : RefersToMissing(i)) => confirmed

\* The substitution has been applied to subst_command.
Resolved == subst_result # <<>>

\* C13: a command whose placeholders, written with or without blanks around
\* the name, all name variables of the variable set, the values of which
\* contain no marker, is resolved to a command without "{{" or "}}", so the
\* marker check of line 360 does not reject the step.
C13_PresentPlaceholdersAreAllReplaced ==
    (/\ Resolved
     /\ ReferencedNames(subst_command) \subseteq Keys(subst_variables)
     /\ \A i \in 1..Len(subst_variables) : ~HasMarker(StrOf(subst_variables[i][2])))
    => ~HasMarker(subst_result[1])

\* The command with each "{{name}}" of the original text, name a key of vs,
\* replaced by the value of name; the values are copied, not scanned.
RECURSIVE SinglePass(_, _)
SinglePass(command, vs) ==
    IF command = <<>> THEN <<>>
    ELSE LET hits == {k \in 1..Len(vs) : StartsWith(command, Placeholder(vs[k][1]))}
         IN  IF hits # {}
             THEN LET k == CHOOSE k \in hits : TRUE
                  IN  StrOf(vs[k][2]) \o
                      SinglePass(SubSeq(command, Len(Placeholder(vs[k][1])) + 1,
                                        Len(command)), vs)
             ELSE <<Head(command)>> \o SinglePass(Tail(command), vs)

\* C14: the resolved command is the command with every placeholder of the
\* original text replaced once by the value of its variable; a placeholder
\* that is only in a substituted value is not expanded, in whatever order
\* the variables are iterated.
C14_SubstitutionIsSinglePass ==
    Resolved => subst_result[1] = SinglePass(subst_command, subst_variables)

\* The command of step i, resolved with the variables of the run, still
\* contains "{{" or "}}".
MarkerLeft(i) ==
    LET command == Substitute(Get(Steps[i], "command", <<>>), variables)
    IN  Contains(command, <<"{", "{">>) \/ Contains(command, <<"}", "}">>)

\* C15: in the step loop and after it, a step whose resolved command still
\* contains a marker has no process launched and its index is not in
\* completed_steps; once the loop has reached it, the run has ended in the
\* handler of "except Exception" and no later step was started, whatever
\* the step's continue_on_error.
C15_IncompleteSubstitutionAborts ==
    idx >= 1 =>
        \A i \in 1..total_steps :
            MarkerLeft(i) =>
                /\ ~InList(i, started)
                /\ ~InList(i, completed_steps)
                /\ status[i] \in {"Pending", "Failed"}
                /\ status[i] = "Failed" =>
                      /\ pc = "idle" /\ outcome = "returned" /\ error_logged
                      /\ idx = i
                      /\ \A j \in (i + 1)..total_steps :
                            status[j] = "Pending" /\ ~InList(j, started)

\* A run that launched step 1 ended at step 2, whose command keeps a marker
\* and which has continue_on_error.
C15_Witness ==
    /\ total_steps = 2
    /\ MarkerLeft(2) /\ Get(Steps[2], "continue_on_error", FALSE)
    /\ status[2] = "Failed"
    /\ started = <<1>>
    /\ pc = "idle"

\* C16: a list_saved_states that directly follows clear_state(w, t) returns
\* no state of the key of (w, t), and returns every state that was stored
\* under another key before the clear.
C16_ClearedKeyIsNotListed ==
    (cmd = "list_states" /\ last_op.op = "clear") =>
        LET key == GetStateFilePath(last_op.workflow_name, last_op.target)
        IN  /\ \A e \in listed : e.state_file # key
            /\ \A f \in DOMAIN last_op.before \ {key} :
                  [state |-> last_op.before[f], state_file |-> f] \in listed

\* The list follows the clear of a key that held a state, and still returns
\* the state of another key.
C16_Witness ==
    /\ cmd = "list_states" /\ last_op.op = "clear"
    /\ GetStateFilePath(last_op.workflow_name, last_op.target)
          \in DOMAIN last_op.before
    /\ listed # {}

\* The state load_state(workflow_name, tgt) returns from st if it was saved
\* for (workflow_name, tgt).
OwnState(st, workflow_name, tgt) ==
    {s \in LoadState(st, workflow_name, tgt) :
        s.workflow_name = workflow_name /\ s.target = tgt}

\* C17: a save_state or clear_state for one (workflow_name, target) leaves
\* the persisted state of every other pair as it was: two distinct pairs
\* never share a state file.
C17_OtherPairsAreUntouched ==
    last_op.op \in {"save", "clear"} =>
        \A n \in StoreNames, t \in StoreTargets :
            <<n, t>> # <<last_op.workflow_name, last_op.target>> =>
                OwnState(store, n, t) = OwnState(last_op.before, n, t)

\* C18: once the declared timeout of a step has run out with its child still
\* running, the step is not classified as anything but TimedOut and its
\* index is not appended to completed_steps.
C18_TimedOutStepIsNotRecorded ==
    elapsed =>
        /\ status[idx] \in {"Running", "TimedOut"}
        /\ ~InList(idx, completed_steps)

\* q is a strictly increasing list of step indices of the template.
IncreasingIndices(q) ==
    /\ \A i \in 1..Len(q) : q[i] \in 1..total_steps
    /\ \A i \in 1..(Len(q) - 1) : q[i] < q[i + 1]

\* C19: the completed_steps of the run and of every state file are strictly
\* increasing lists of 1-based step indices, hence without duplicates.
C19_CompletedStepsIncrease ==
    /\ IncreasingIndices(completed_steps)
    /\ \A f \in DOMAIN store : IncreasingIndices(store[f].completed_steps)

\* A resumed run took over a non-empty list, appended to it and saved it.
C19_Witness ==
    /\ \E s \in loaded :
          /\ s.completed_steps # <<>>
          /\ Len(completed_steps) > Len(s.completed_steps)
    /\ PersistedSteps = completed_steps

RecordedNotDone(q) ==
    {i \in 1..total_steps :
        InList(i, q) /\ status[i] \notin {"Pending", "Completed", "Skipped"}}

\* C21: completed_steps, in memory and in the state file the run has
\* written, holds no index of a step this run classified Failed: only steps
\* that ended Completed or Skipped are recorded.
C21_OnlyCompletedOrSkippedRecorded ==
    /\ RecordedNotDone(completed_steps) = {}
    /\ saved # {} => RecordedNotDone(PersistedSteps) = {}

\* C22: a step that is Running is eventually classified Completed, Failed
\* or Skipped without the operator doing anything, for every child that
\* writes to its output and error streams and then exits, one that writes
\* more to its error stream than the pipe holds included.
C22_RunningStepTerminates ==
    (step_status = "Running") ~> (step_status \in {"Completed", "Failed", "Skipped"})

====
